---- MODULE Spec2Model ----
(***************************************************************************)
(* ArrayPlusExtra<T, N, EXTRA> (korken89/array-plus-extra): a #[repr(C)]   *)
(* struct of two arrays, `data: [T; N]` and `extra: [T; EXTRA]`, viewed as *)
(* one slice of N + EXTRA elements through raw pointers, converted to a    *)
(* fixed array, compared through the slice, and (de)serialized with serde. *)
(*                                                                         *)
(* Addresses are counted in units of size_of::<T>() from the address of    *)
(* the struct.  Flat index i of the source (0-based) is position i + 1 of  *)
(* a TLA+ sequence.                                                        *)
(***************************************************************************)
EXTENDS Integers, Sequences, FiniteSets, TLC

\* Bounds of the model: the const generics range over 0..MaxN and 0..MaxExtra,
\* an input sequence holds at most N + EXTRA + MaxExcess elements.
MaxN == 2
MaxExtra == 1
MaxExcess == 1

\* The element values the model draws from (two i32 values of the tests).
Values == {10, 20}

\* The content of a slot no value was written to (MaybeUninit::uninit()), and
\* of memory outside both fields.
Uninit == -1

\* An element of the input the element type fails to deserialize
\* (seq.next_element() returns Err).
Malformed == -2

VARIABLES
    N,          \* const generic N
    EXTRA,      \* const generic EXTRA
    format,     \* the Deserializer in use: does it reject unconsumed elements
    arr,        \* the instance: [st, data, extra]
    out,        \* the array into_array returned: [st, elems]
    released,   \* per flat index, how often the element was released (dropped)
    wire,       \* the sequence handed to the deserializer: [st, elems]
    dec,        \* what deserialize returned: Result<ArrayPlusExtra, Error>
    insts,      \* three instances of one type, compared with ==
    last,       \* the last write through the mutable view: [i, v]
    rendered    \* the text format!("{:?}", arr) returned: [st, text]

vars ==
    <<N, EXTRA, format, arr, out, released, wire, dec, insts, last, rendered>>

----------------------------------------------------------------------------
\* The struct and its memory layout.

\* struct ArrayPlusExtra { data: [T; N], extra: [T; EXTRA] }
ArrayPlusExtra(d, e) == [data |-> d, extra |-> e]

\* A layout that puts `extra` first, as the default representation may.
ReorderedLayout == [data |-> EXTRA, extra |-> 0]

\* #[repr(C)]: the offset of each field, in declaration order, each at the end
\* of the one before (both are arrays of T: no padding between them).
Layout == [data |-> 0, extra |-> N]

OffsetOfData == Layout.data

OffsetOfExtra == Layout.extra

\* The element stored at address a of the struct `self`.
Load(self, a) ==
    IF OffsetOfData <= a /\ a < OffsetOfData + Len(self.data)
    THEN self.data[a - OffsetOfData + 1]
    ELSE IF OffsetOfExtra <= a /\ a < OffsetOfExtra + Len(self.extra)
         THEN self.extra[a - OffsetOfExtra + 1]
         ELSE Uninit

\* The struct `self` after a write of v to address a.
Store(self, a, v) ==
    IF OffsetOfData <= a /\ a < OffsetOfData + Len(self.data)
    THEN [self EXCEPT !.data[a - OffsetOfData + 1] = v]
    ELSE IF OffsetOfExtra <= a /\ a < OffsetOfExtra + Len(self.extra)
         THEN [self EXCEPT !.extra[a - OffsetOfExtra + 1] = v]
         ELSE self

\* core::slice::from_raw_parts(self as *const T, len): the len elements that
\* start at the address of the struct.
FromRawParts(self, len) == [i \in 1..len |-> Load(self, i - 1)]

\* [value; n]
RECURSIVE Repeat(_, _)
Repeat(value, n) == IF n = 0 THEN <<>> ELSE Append(Repeat(value, n - 1), value)

\* A constructor that leaves `extra` unset.
newExtraUnset(value) == ArrayPlusExtra(Repeat(value, N), Repeat(Uninit, EXTRA))

\* ArrayPlusExtra::new(value)
new(value) == ArrayPlusExtra(Repeat(value, N), Repeat(value, EXTRA))

\* A view that stops at the end of `data`.
ShortSliceLen == N

\* The length both views pass to from_raw_parts.
SliceLen == N + EXTRA

\* as_slice(&self)
as_slice(self) == FromRawParts(self, SliceLen)

\* A write to a view over a copy of the struct: the struct keeps its value.
as_mut_slice_set_copy(self, i, v) == self

\* as_mut_slice(&mut self)[i] = v
as_mut_slice_set(self, i, v) == Store(self, i, v)

\* Deref::deref
deref(self) == as_slice(self)

\* DerefMut::deref_mut, then IndexMut: self[i] = v
deref_mut_set(self, i, v) == as_mut_slice_set(self, i, v)

\* const { assert!(M == N + EXTRA) }: the only M that compiles.
M == N + EXTRA

\* as_array::<M>(&self): transmute(&Self) to &[T; M], the M elements at the
\* address of the struct.
as_array(self) == [i \in 1..M |-> Load(self, i - 1)]

\* The releases a value of n elements performs when its destructor runs.
DropGlue(n) == [i \in 1..n |-> 1]

\* Without forget, self is dropped when into_array returns.
dropOnReturn(n) == [i \in 1..n |-> 1]

\* core::mem::forget(self): the destructor of self never runs.
forget(n) == [i \in 1..n |-> 0]

\* A read that starts at the field `extra` instead of the struct.
into_array_from_extra(self) ==
    [array  |-> [i \in 1..M |-> Load(self, OffsetOfExtra + i - 1)],
     source |-> forget(N + EXTRA)]

\* into_array::<M>(self): ptr::read of the struct as [T; M], then forget(self).
\* `array` is the value returned, `source` the releases self performs.
into_array(self) ==
    [array  |-> [i \in 1..M |-> Load(self, i - 1)],
     source |-> forget(N + EXTRA)]

\* <[T] as PartialEq>::eq: equal lengths and equal elements.
SliceEq(a, b) == Len(a) = Len(b) /\ \A i \in 1..Len(a) : a[i] = b[i]

\* A comparison of the `data` fields alone.
eqDataOnly(self, other) == SliceEq(self.data, other.data)

\* PartialEq::eq: self[..] == other[..]
eq(self, other) == SliceEq(deref(self), deref(other))

----------------------------------------------------------------------------
\* Debug.  A text is the sequence of the pieces written to the formatter.

\* <[T] as Debug>::fmt, f.debug_list().entries(..).finish(): "[", the elements
\* separated by ", ", "]".
RECURSIVE DebugEntries(_)
DebugEntries(s) ==
    IF s = <<>> THEN <<>>
    ELSE IF Len(s) = 1 THEN <<ToString(Head(s))>>
    ELSE <<ToString(Head(s)), ", ">> \o DebugEntries(Tail(s))

DebugList(s) == <<"[">> \o DebugEntries(s) \o <<"]">>

\* #[derive(Debug)]: f.debug_struct("ArrayPlusExtra").field("data", &self.data)
\* .field("extra", &self.extra).finish()
fmt(self) ==
    <<"ArrayPlusExtra", " { ", "data", ": ">> \o DebugList(self.data)
       \o <<", ", "extra", ": ">> \o DebugList(self.extra) \o <<" }">>

----------------------------------------------------------------------------
\* serde.

\* <[T] as Serialize>::serialize: the elements of the slice, one after the
\* other, as one sequence.
RECURSIVE SerializeSlice(_)
SerializeSlice(s) ==
    IF s = <<>> THEN <<>> ELSE <<Head(s)>> \o SerializeSlice(Tail(s))

\* A serialization of the field `data` alone.
serializeDataOnly(self) == SerializeSlice(self.data)

\* Serialize::serialize
serialize(self) == SerializeSlice(as_slice(self))

\* An expectation that counts `data` alone.
expectingDataOnly == N

\* Visitor::expecting: "an array of {N + EXTRA} elements"
expecting == N + EXTRA

NoError == [kind |-> "none", len |-> 0, expected |-> 0]

\* Error::invalid_length(len, &self)
invalid_length(len) ==
    [kind |-> "invalid_length", len |-> len, expected |-> expecting]

\* The error of an element that fails to deserialize, passed on by `?`.
ElementError == [kind |-> "element", len |-> 0, expected |-> 0]

\* The error of a deserializer that finds elements the visitor did not take.
TrailingError == [kind |-> "trailing", len |-> 0, expected |-> 0]

\* Dropping a MaybeUninit<T> never drops the T in it: the number of releases
\* of the slot's element.
DropMaybeUninit(slot) == 0

\* What visit_seq leaves when it returns.  `ok`/`value`/`err`: the Result;
\* `filled`: the slots written; `consumed`: the elements taken from the
\* sequence; `drops`: per slot, the releases of its element by the destructors
\* of the locals `data` and `extra`.
VisitErr(d, e, taken, err) ==
    [ok |-> FALSE, value |-> ArrayPlusExtra(<<>>, <<>>), err |-> err,
     filled |-> {slot \in 0..(N + EXTRA - 1) : (d \o e)[slot + 1] # Uninit},
     consumed |-> taken,
     drops |-> [slot \in 1..(N + EXTRA) |-> DropMaybeUninit((d \o e)[slot])]]

\* The end of visit_seq: ptr read of `data` as [T; N] and of `extra` as
\* [T; EXTRA]; the locals are dropped after it.
VisitOk(d, e, taken) ==
    [ok |-> TRUE, value |-> ArrayPlusExtra(d, e), err |-> NoError,
     filled |-> {slot \in 0..(N + EXTRA - 1) : (d \o e)[slot + 1] # Uninit},
     consumed |-> taken,
     drops |-> [slot \in 1..(N + EXTRA) |-> DropMaybeUninit((d \o e)[slot])]]

\* An iteration over the slots of `data` alone.
SlotsOfData == N

\* The number of slots data.iter_mut().chain(extra.iter_mut()) yields.
Slots == N + EXTRA

\* The loop of visit_seq at index i: elem is slot i of
\* data.iter_mut().chain(extra.iter_mut()); d and e are the locals.
RECURSIVE VisitLoop(_, _, _, _)
VisitLoop(i, d, e, input) ==
    IF i = Slots THEN VisitOk(d, e, i)
    ELSE IF i >= Len(input) THEN VisitErr(d, e, i, invalid_length(i))
    ELSE IF input[i + 1] = Malformed THEN VisitErr(d, e, i, ElementError)
    ELSE IF i < N
         THEN VisitLoop(i + 1, [d EXCEPT ![i + 1] = input[i + 1]], e, input)
         ELSE VisitLoop(i + 1, d, [e EXCEPT ![i - N + 1] = input[i + 1]], input)

\* ArrayVisitor::visit_seq
visit_seq(input) ==
    VisitLoop(0, Repeat(Uninit, N), Repeat(Uninit, EXTRA), input)

\* Deserialize::deserialize: deserializer.deserialize_seq(ArrayVisitor).  The
\* deserializer calls visit_seq and, when its format is strict, turns a value
\* into an error if the visitor left elements of the sequence.
deserialize(input) ==
    LET r == visit_seq(input) IN
    IF r.ok /\ r.consumed < Len(input) /\ format = "strict"
    THEN [r EXCEPT !.ok = FALSE, !.value = ArrayPlusExtra(<<>>, <<>>),
                   !.err = TrailingError]
    ELSE r

----------------------------------------------------------------------------
\* The states of a program that uses the type.

NoInstance == [st |-> "none", data |-> <<>>, extra |-> <<>>]

Live(self) == [st |-> "live", data |-> self.data, extra |-> self.extra]

NoArray == [st |-> "none", elems |-> <<>>]

NoResult ==
    [ok |-> FALSE, value |-> ArrayPlusExtra(<<>>, <<>>), err |-> NoError,
     filled |-> {}, consumed |-> 0, drops |-> <<>>]

\* No write was made yet.
NoWrite == [i |-> Uninit, v |-> Uninit]

\* Nothing was formatted yet.
NoText == [st |-> "none", text |-> <<>>]

\* The sequences a deserializer may be given.
Inputs ==
    UNION {[1..n -> Values \cup {Malformed}] : n \in 0..(N + EXTRA + MaxExcess)}

TypeParams ==
    /\ N \in 0..MaxN
    /\ EXTRA \in 0..MaxExtra
    /\ format \in {"strict", "lenient"}

Init ==
    /\ TypeParams
    /\ arr = NoInstance
    /\ out = NoArray
    /\ released = [i \in 1..(N + EXTRA) |-> 0]
    /\ wire = NoArray
    /\ dec = [st |-> "none", res |-> NoResult]
    /\ insts = <<>>
    /\ last = NoWrite
    /\ rendered = NoText

\* let mut arr = ArrayPlusExtra::new(value);
New(value) ==
    /\ arr.st = "none"
    /\ arr' = Live(new(value))
    /\ UNCHANGED <<rendered, N, EXTRA, format, out, released, wire, dec, insts, last>>

\* let arr = from_str(..).unwrap(); the decoded instance takes the place of
\* one that went out of scope: none of its elements was released or written.
Unwrap ==
    /\ arr.st \in {"none", "dropped"}
    /\ dec.st = "done"
    /\ dec.res.ok
    /\ arr' = Live(dec.res.value)
    /\ dec' = [dec EXCEPT !.st = "taken"]
    /\ released' = [i \in 1..(N + EXTRA) |-> 0]
    /\ last' = NoWrite
    /\ UNCHANGED <<rendered, N, EXTRA, format, out, wire, insts>>

\* arr.as_mut_slice()[i] = v; an index out of the slice panics.
Write(i, v) ==
    /\ arr.st = "live"
    /\ i < Len(as_slice(arr))
    /\ arr' = Live(as_mut_slice_set(arr, i, v))
    /\ last' = [i |-> i, v |-> v]
    /\ UNCHANGED <<rendered, N, EXTRA, format, out, released, wire, dec, insts>>

\* arr[i] = v;
WriteDeref(i, v) ==
    /\ arr.st = "live"
    /\ i < Len(deref(arr))
    /\ arr' = Live(deref_mut_set(arr, i, v))
    /\ last' = [i |-> i, v |-> v]
    /\ UNCHANGED <<rendered, N, EXTRA, format, out, released, wire, dec, insts>>

\* let json = to_string(&arr); a new round trip starts.
Serialize ==
    /\ arr.st = "live"
    /\ wire' = [st |-> "sent", elems |-> serialize(arr)]
    /\ dec' = [st |-> "none", res |-> NoResult]
    /\ UNCHANGED <<rendered, N, EXTRA, format, arr, out, released, insts, last>>

\* let result: Result<ArrayPlusExtra<..>, _> = from_str(&json);
Deserialize ==
    /\ wire.st = "sent"
    /\ dec.st = "none"
    /\ dec' = [st |-> "done", res |-> deserialize(wire.elems)]
    /\ UNCHANGED <<rendered, N, EXTRA, format, arr, out, released, wire, insts, last>>

\* let array: [T; M] = arr.into_array();
IntoArray ==
    /\ arr.st = "live"
    /\ out.st = "none"
    /\ out' = [st |-> "live", elems |-> into_array(arr).array]
    /\ released' = [i \in 1..(N + EXTRA) |->
                       released[i] + into_array(arr).source[i]]
    /\ arr' = [arr EXCEPT !.st = "moved"]
    /\ UNCHANGED <<rendered, N, EXTRA, format, wire, dec, insts, last>>

\* arr goes out of scope: the struct has no Drop of its own, every element of
\* both fields is dropped.
DropInstance ==
    /\ arr.st = "live"
    /\ released' = [i \in 1..(N + EXTRA) |->
                       released[i] + DropGlue(N + EXTRA)[i]]
    /\ arr' = [arr EXCEPT !.st = "dropped"]
    /\ UNCHANGED <<rendered, N, EXTRA, format, out, wire, dec, insts, last>>

\* The array into_array returned goes out of scope.
DropArray ==
    /\ out.st = "live"
    /\ released' = [i \in 1..Len(out.elems) |->
                       released[i] + DropGlue(Len(out.elems))[i]]
    /\ out' = [out EXCEPT !.st = "dropped"]
    /\ UNCHANGED <<rendered, N, EXTRA, format, arr, wire, dec, insts, last>>

Next ==
    \/ \E v \in Values : New(v)
    \/ Unwrap
    \/ \E i \in 0..(MaxN + MaxExtra), v \in Values : Write(i, v)
    \/ \E i \in 0..(MaxN + MaxExtra), v \in Values : WriteDeref(i, v)
    \/ Serialize
    \/ Deserialize
    \/ IntoArray
    \/ DropInstance
    \/ DropArray

Spec == Init /\ [][Next]_vars

----------------------------------------------------------------------------
\* Decoding of any sequence: the deserializer is given a sequence of any
\* length up to N + EXTRA + MaxExcess, of elements well formed or not.

\* from_str(json) on a json of the caller's.
Feed(input) ==
    /\ wire.st = "none"
    /\ wire' = [st |-> "sent", elems |-> input]
    /\ dec' = [st |-> "none", res |-> NoResult]
    /\ UNCHANGED <<rendered, N, EXTRA, format, arr, out, released, insts, last>>

NextDe ==
    \/ \E input \in Inputs : Feed(input)
    \/ Deserialize

SpecDe == Init /\ [][NextDe]_vars

----------------------------------------------------------------------------
\* Comparison: three instances of one type, each written through deref_mut.

Instances == {1, 2, 3}

InitEq ==
    /\ N \in 0..MaxN
    /\ EXTRA \in 0..MaxExtra
    /\ format = "strict"
    /\ arr = NoInstance
    /\ out = NoArray
    /\ released = [i \in 1..(N + EXTRA) |-> 0]
    /\ wire = NoArray
    /\ dec = [st |-> "none", res |-> NoResult]
    /\ insts \in [Instances -> {new(v) : v \in Values}]
    /\ last = NoWrite
    /\ rendered = NoText

\* insts[k][i] = v;
EqWrite(k, i, v) ==
    /\ i < Len(deref(insts[k]))
    /\ insts' = [insts EXCEPT ![k] = deref_mut_set(insts[k], i, v)]
    /\ UNCHANGED <<rendered, N, EXTRA, format, arr, out, released, wire, dec, last>>

NextEq ==
    \E k \in Instances, i \in 0..(MaxN + MaxExtra), v \in Values : EqWrite(k, i, v)

SpecEq == InitEq /\ [][NextEq]_vars

----------------------------------------------------------------------------
\* Debug rendering of an instance built by new and written through deref_mut.

\* let debug_str = format!("{:?}", arr);
Format ==
    /\ arr.st = "live"
    /\ rendered' = [st |-> "done", text |-> fmt(arr)]
    /\ UNCHANGED <<N, EXTRA, format, arr, out, released, wire, dec, insts, last>>

NextFmt ==
    \/ \E v \in Values : New(v)
    \/ \E i \in 0..(MaxN + MaxExtra), v \in Values : WriteDeref(i, v)
    \/ Format

SpecFmt == Init /\ [][NextFmt]_vars

----------------------------------------------------------------------------
\* The flat view as the claims state it: `data` first, then `extra`.

FlatAt(self, i) == IF i < N THEN self.data[i + 1] ELSE self.extra[i - N + 1]

FlatIndices == 0..(N + EXTRA - 1)

IsFlatView(s, self) ==
    /\ Len(s) = N + EXTRA
    /\ \A i \in FlatIndices : s[i + 1] = FlatAt(self, i)

\* C1: in every state of an instance (after new, after any writes through
\* as_mut_slice or deref_mut, after a successful decode) as_slice() has
\* exactly N + EXTRA elements, element i being data[i] for i < N and
\* extra[i - N] for N <= i < N + EXTRA.
C1_FlatView ==
    /\ arr.st = "live" =>
          /\ Len(arr.data) = N /\ Len(arr.extra) = EXTRA
          /\ IsFlatView(as_slice(arr), arr)
    /\ dec.st = "done" /\ dec.res.ok =>
          /\ Len(dec.res.value.data) = N /\ Len(dec.res.value.extra) = EXTRA
          /\ IsFlatView(as_slice(dec.res.value), dec.res.value)

\* An instance written to, whose `data` and `extra` differ, beside a decoded
\* instance whose `data` and `extra` differ.
C1_Witness ==
    /\ N = 2 /\ EXTRA = 1
    /\ arr.st = "live" /\ arr.data = <<10, 10>> /\ arr.extra = <<20>>
    /\ dec.st = "done" /\ dec.res.ok
    /\ dec.res.value.data = <<20, 20>> /\ dec.res.value.extra = <<10>>

\* C2: for all N, EXTRA >= 0 and every value v, new(v).as_slice() has length
\* N + EXTRA and every element of it equals v; new never fails (it is enabled
\* whenever no instance was built yet).
C2_NewFills ==
    [][\A v \in Values :
          /\ arr.st = "none" => ENABLED New(v)
          /\ New(v) =>
                /\ arr'.st = "live"
                /\ Len(as_slice(arr')) = N + EXTRA
                /\ \A i \in FlatIndices : as_slice(arr')[i + 1] = v]_vars

C2_Witness ==
    /\ N = 2 /\ EXTRA = 1
    /\ arr.st = "live" /\ as_slice(arr) = <<20, 20, 20>>
    /\ wire.st = "none"

\* C3: for every index i < N + EXTRA and value v, after v is written through
\* as_mut_slice()[i] or through deref_mut indexing, element i of as_slice()
\* is v, and a step that is no write to index i (the last write stays what it
\* was, or is a write to another index) leaves element i as it is.
C3_WriteObserved ==
    /\ [](arr.st = "live" /\ last # NoWrite =>
            as_slice(arr)[last.i + 1] = last.v)
    /\ [][\A i \in FlatIndices :
            ( /\ arr.st = "live" /\ arr'.st = "live"
              /\ (last' = last \/ last'.i # i) )
            => as_slice(arr')[i + 1] = as_slice(arr)[i + 1]]_vars

\* An element of `extra` and one of `data` were written to a value other than
\* the one new filled in.
C3_Witness ==
    /\ N = 2 /\ EXTRA = 1 /\ dec.st = "none" /\ wire.st = "none"
    /\ arr.st = "live" /\ as_slice(arr) = <<10, 20, 20>>
    /\ last = [i |-> 2, v |-> 20]

\* C4: for M = N + EXTRA and an instance reached by any writes, as_array::<M>()
\* and into_array::<M>() each yield M elements, element i the instance's
\* as_slice()[i], which is data[i] or extra[i - N].
C4_ArrayConversion ==
    /\ arr.st = "live" =>
          /\ as_array(arr) = as_slice(arr)
          /\ IsFlatView(as_array(arr), arr)
    /\ arr.st = "moved" =>
          /\ out.elems = as_slice(arr)
          /\ IsFlatView(out.elems, arr)

\* into_array returned the array of an instance whose elements differ.
C4_Witness ==
    /\ N = 2 /\ EXTRA = 1
    /\ arr.st = "moved" /\ out.st = "live" /\ out.elems = <<10, 20, 10>>

\* C5: into_array hands every one of the N + EXTRA elements to the array it
\* returns: the consumed instance releases none of them, and when the array
\* is dropped each element has been released exactly once; no element is ever
\* released twice.
C5_ReleasedOnce ==
    /\ \A i \in 1..(N + EXTRA) : released[i] <= 1
    /\ arr.st = "moved" /\ out.st = "live" =>
          \A i \in 1..(N + EXTRA) : released[i] = 0
    /\ out.st = "dropped" =>
          \A i \in 1..(N + EXTRA) : released[i] = 1

\* The array into_array returned was dropped.
C5_Witness ==
    /\ N = 2 /\ EXTRA = 1
    /\ arr.st = "moved" /\ out.st = "dropped"

\* C6: two instances of one type compare equal if and only if their flat
\* views agree at every index 0..N+EXTRA-1 (a difference in `data` or in
\* `extra` makes them unequal), and == is reflexive, symmetric and transitive.
C6_Equality ==
    /\ \A a \in DOMAIN insts : eq(insts[a], insts[a])
    /\ \A a \in DOMAIN insts, b \in DOMAIN insts :
          /\ eq(insts[a], insts[b])
                <=> \A i \in FlatIndices :
                       FlatAt(insts[a], i) = FlatAt(insts[b], i)
          /\ eq(insts[a], insts[b]) => eq(insts[b], insts[a])
    /\ \A a \in DOMAIN insts, b \in DOMAIN insts, c \in DOMAIN insts :
          eq(insts[a], insts[b]) /\ eq(insts[b], insts[c])
             => eq(insts[a], insts[c])

\* Two instances that differ in `extra` alone, and so are unequal, beside a
\* third that equals the second.
C6_Witness ==
    /\ N = 2 /\ EXTRA = 1
    /\ insts[1].data = insts[2].data
    /\ insts[1].extra # insts[2].extra
    /\ ~ eq(insts[1], insts[2])
    /\ insts[2].data = <<10, 20>>
    /\ eq(insts[2], insts[3])

\* C7: encoding an instance emits its flat view, N + EXTRA elements in flat
\* order; decoding the emitted sequence into the same type succeeds, the k-th
\* element lands at flat index k (`data` first, then `extra`), and the result
\* equals the instance that was encoded; for all N, EXTRA, zero included.
C7_RoundTrip ==
    [][/\ Serialize => IsFlatView(wire'.elems, arr)
       /\ (Deserialize /\ wire.st = "sent") =>
             /\ dec'.res.ok
             /\ IsFlatView(wire.elems, dec'.res.value)
             /\ (arr.st = "live" /\ IsFlatView(wire.elems, arr))
                  => eq(arr, dec'.res.value) /\ eq(dec'.res.value, arr)]_vars

\* An instance whose elements differ was encoded, and decoded to its equal.
C7_Witness ==
    /\ N = 2 /\ EXTRA = 1
    /\ arr.st = "live" /\ arr.data = <<10, 20>> /\ arr.extra = <<10>>
    /\ wire.st = "sent" /\ wire.elems = <<10, 20, 10>>
    /\ dec.st = "done" /\ dec.res.ok /\ eq(arr, dec.res.value)

WellFormed(input) == \A k \in 1..Len(input) : input[k] # Malformed

\* C8: decoding a sequence that yields k < N + EXTRA elements fails with a
\* length-mismatch error that names the expected total N + EXTRA and the
\* position k at which the sequence ended; no instance is returned.
C8_TooFew ==
    ( /\ dec.st = "done"
      /\ WellFormed(wire.elems)
      /\ Len(wire.elems) < N + EXTRA )
    => /\ ~ dec.res.ok
       /\ dec.res.err = [kind |-> "invalid_length", len |-> Len(wire.elems),
                          expected |-> N + EXTRA]
       /\ dec.res.value = ArrayPlusExtra(<<>>, <<>>)

\* A sequence of two elements was decoded into a type of three.
C8_Witness ==
    /\ N = 2 /\ EXTRA = 1
    /\ dec.st = "done" /\ wire.elems = <<10, 20>>
    /\ dec.res.err.kind = "invalid_length"

C10_FailureReleases ==
    ( /\ dec.st = "done"
      /\ dec.res.err.kind \in {"invalid_length", "element"} )
    => LET i == dec.res.consumed IN
       /\ \A k \in FlatIndices : k >= i => dec.res.drops[k + 1] = 0
       /\ \A k \in FlatIndices : k < i => dec.res.drops[k + 1] = 1
       /\ dec.res.value = ArrayPlusExtra(<<>>, <<>>)

\* The part of C10 the code keeps: on a failure at element i exactly the
\* slots before i are written, no destructor runs on any slot, and no
\* instance is returned.
C10_NoDropOfUninit ==
    ( /\ dec.st = "done"
      /\ dec.res.err.kind \in {"invalid_length", "element"} )
    => LET i == dec.res.consumed IN
       /\ dec.res.filled = {k \in FlatIndices : k < i}
       /\ \A k \in FlatIndices : dec.res.drops[k + 1] = 0
       /\ ~ dec.res.ok
       /\ dec.res.value = ArrayPlusExtra(<<>>, <<>>)

\* C11: the Debug rendering of an instance is the Debug rendering of a plain
\* array or slice of its N + EXTRA elements in flat order, with no trace of
\* the split into `data` and `extra`.
C11_DebugAsSlice ==
    [][Format => rendered'.text = DebugList(arr.data \o arr.extra)]_vars

\* What the code renders instead: the struct's name and its two fields, each
\* as a list of its own.
C11_DebugDerived ==
    [][Format =>
          /\ rendered'.text[1] = "ArrayPlusExtra"
          /\ \E k \in 1..Len(rendered'.text) : rendered'.text[k] = "extra"]_vars

====
